---- MODULE Spec2Model ----
(***************************************************************************)
(* A model of modelscan's traversal-and-dispatch engine                    *)
(* (src/modelscan/modelscan.py, class ModelScan) and of its lazily opened  *)
(* byte source (src/modelscan/model.py, class Model).                      *)
(*                                                                         *)
(* A path is the sequence of its segments below the filesystem root; the   *)
(* string of an archive entry, f"{source}:{file_name}", is the archive's   *)
(* path with ":" and the entry name appended to its last segment.          *)
(***************************************************************************)
EXTENDS Integers, Sequences, FiniteSets, TLC

VARIABLES
    settings,          \* self._settings["scanners"]: the configured scanners, in order
    _scanners_to_run,  \* self._scanners_to_run: identifiers of the loaded scanner classes
    _init_errors,      \* self._init_errors
    _issues,           \* self._issues.all_issues
    _errors,           \* self._errors
    _skipped,          \* self._skipped
    _scanned,          \* self._scanned
    _input_path,       \* self._input_path
    pc,                \* "idle", "run" (inside scan()), "done" (scan() returned), "raised"
    stack,             \* the call stack of scan(): frames of _scan_path/_scan_source/..., top first
    raised,            \* the exception that left scan(), "none" otherwise
    report,            \* the value scan() returned
    calls,             \* history of the current scan(): scanner calls and fallbacks entered
    callNo,            \* number of scan() calls made so far
    probe,             \* the last is_compatible() call and what it returned
    res,               \* the Model instance: [source, stream, used]
    handles,           \* the byte streams that exist: handle |-> [owner, closed, pos]
    resOut,            \* outcome of the last Model operation
    inBlock            \* the Model is inside a `with` block

engineVars == <<settings, _scanners_to_run, _init_errors, _issues, _errors, _skipped,
                _scanned, _input_path, pc, stack, raised, report, calls, callNo, probe>>
resVars == <<res, handles, resOut, inBlock>>
vars == <<engineVars, resVars>>

\* ------------------------------------------------------------------ bounds

MaxScans == 2      \* scan() calls made on one engine instance
MaxOpens == 2      \* handles one Model may create
MaxOffset == 2     \* offsets passed to get_stream

\* ------------------------------------------------------------- sequences

RECURSIVE SeqToSet(_)
SeqToSet(s) == IF s = <<>> THEN {} ELSE {Head(s)} \cup SeqToSet(Tail(s))

Front(s) == SubSeq(s, 1, Len(s) - 1)
Last(s) == s[Len(s)]

IsPrefix(p, s) == Len(p) <= Len(s) /\ SubSeq(s, 1, Len(p)) = p

RECURSIVE Count(_, _)
Count(x, s) == IF s = <<>> THEN 0 ELSE (IF Head(s) = x THEN 1 ELSE 0) + Count(x, Tail(s))

\* ------------------------------------------------------------ filesystem

\* The working directory of the process.
Cwd == <<"r", "w">>

NoEntries == <<>>

\* The files on disk.  zip: "no" (not an archive), "ok" (opens as an archive),
\* "bad" (zipfile.ZipFile raises BadZipFile).  magic: the content starts with the
\* archive signature.  entries: zip.namelist(), each name a sequence of segments.
FS ==
    (<<>>                :> [kind |-> "dir",  zip |-> "no",  magic |-> FALSE, entries |-> NoEntries]) @@
    (<<"r">>             :> [kind |-> "dir",  zip |-> "no",  magic |-> FALSE, entries |-> NoEntries]) @@
    (<<"r", "w">>        :> [kind |-> "dir",  zip |-> "no",  magic |-> FALSE, entries |-> NoEntries]) @@
    (<<"r", "w", "m.pkl">> :> [kind |-> "file", zip |-> "no",  magic |-> FALSE, entries |-> NoEntries]) @@
    (<<"r", "w", "a.zip">> :> [kind |-> "file", zip |-> "ok",  magic |-> TRUE,
                               entries |-> << <<"sub", "e.pkl">>, <<"n.zip">> >>]) @@
    (<<"r", "b.zip">>    :> [kind |-> "file", zip |-> "bad", magic |-> FALSE, entries |-> NoEntries]) @@
    (<<"r", "c.bin">>    :> [kind |-> "file", zip |-> "bad", magic |-> TRUE,  entries |-> NoEntries]) @@
    (<<"r", "t.pt">>     :> [kind |-> "file", zip |-> "ok",  magic |-> TRUE,
                               entries |-> << <<"d.pkl">>, <<"x.bin">> >>]) @@
    (<<"z">>             :> [kind |-> "dir",  zip |-> "no",  magic |-> FALSE, entries |-> NoEntries]) @@
    (<<"z", "f.txt">>    :> [kind |-> "file", zip |-> "no",  magic |-> FALSE, entries |-> NoEntries]) @@
    (<<"r", "q">>        :> [kind |-> "dir",  zip |-> "no",  magic |-> FALSE, entries |-> NoEntries]) @@
    (<<"r", "q", "s">>   :> [kind |-> "dir",  zip |-> "no",  magic |-> FALSE, entries |-> NoEntries]) @@
    (<<"r", "q", "s", "k.bin">> :> [kind |-> "file", zip |-> "no", magic |-> FALSE, entries |-> NoEntries])

FSPaths == DOMAIN FS

\* Archive entries whose bytes start with the archive signature (a nested archive).
MagicEntries == { <<"n.zip">> }
\* Archive entries whose local header is damaged: zip.open raises BadZipFile.
CorruptEntries == { <<"x.bin">> }

\* pathlib's PurePath.suffix of a final segment.
Suffix(seg) ==
    CASE seg \in {"m.pkl", "e.pkl", "d.pkl"} -> ".pkl"
      [] seg \in {"a.zip", "b.zip", "n.zip"} -> ".zip"
      [] seg = "t.pt" -> ".pt"
      [] seg \in {"k.bin", "x.bin", "c.bin"} -> ".bin"
      [] seg = "w.h5" -> ".h5"
      [] seg = "f.txt" -> ".txt"
      [] OTHER -> ""

Parent(p) == IF p = <<>> THEN <<>> ELSE Front(p)

\* os.stat of an absolute path, segment by segment: "none", "dir" or "file".
RECURSIVE StatFrom(_, _)
StatFrom(cur, rest) ==
    IF cur \notin FSPaths THEN "none"
    ELSE IF rest = <<>> THEN FS[cur].kind
    ELSE IF FS[cur].kind # "dir" THEN "none"
    ELSE StatFrom(IF Head(rest) = ".." THEN Parent(cur) ELSE Append(cur, Head(rest)),
                  Tail(rest))

\* Path.resolve() (no symbolic links on this disk): ".." segments are collapsed.
RECURSIVE ResolveFrom(_, _)
ResolveFrom(cur, rest) ==
    IF rest = <<>> THEN cur
    ELSE ResolveFrom(IF Head(rest) = ".." THEN Parent(cur) ELSE Append(cur, Head(rest)),
                     Tail(rest))

Resolve(p) == ResolveFrom(<<>>, p)
Exists(p) == StatFrom(<<>>, p) # "none"
IsDir(p) == StatFrom(<<>>, p) = "dir"
IsFile(p) == StatFrom(<<>>, p) = "file"
\* The file an existing path names.
Node(p) == FS[Resolve(p)]

\* Path(path).absolute(): the working directory is prepended to a relative
\* path; ".." segments stay.
Absolute(ip) == IF ip.abs THEN ip.segs ELSE Cwd \o ip.segs

\* f"{source}:{file_name}"
EntrySource(source, name) ==
    Front(source) \o << Last(source) \o ":" \o Head(name) >> \o Tail(name)

\* --------------------------------------------------------------- registry

ScannerIds == <<"S1", "S2", "S3">>

\* What a configured scanner is: "ok"; "unresolvable" (importing the module or
\* finding the class in it fails); "uninstantiable" (the class is found, and
\* calling it with the settings raises).
ScannerModes == {"ok", "unresolvable", "uninstantiable"}

\* settings["supported_zip_extensions"]
supported_zip_extensions == {".zip", ".npz"}

\* settings["scanners"][id]["supported_extensions"]
supported_extensions(id) ==
    CASE id = "S1" -> {".pkl"}
      [] id = "S2" -> {".bin", ".pt"}
      [] OTHER -> {".h5"}

\* The configurations an engine is constructed with: every scanner is enabled
\* or not, and is of one of the modes (a disabled scanner's mode is never looked at).
Configurations ==
    { c \in [1..Len(ScannerIds) -> [enabled : BOOLEAN, mode : ScannerModes]] :
        \A i \in DOMAIN c : ~c[i].enabled => c[i].mode = "ok" }

MakeSettings(c) ==
    [i \in 1..Len(ScannerIds) |->
        [id |-> ScannerIds[i], enabled |-> c[i].enabled, mode |-> c[i].mode,
         supported_extensions |-> supported_extensions(ScannerIds[i])]]

\* ModelScanError(scan_name, message): the message is kept as its kind and the
\* path it quotes.  The error has no source of its own.
ModelScanError(scan_name, kind, ref) ==
    [scan_name |-> scan_name, kind |-> kind, ref |-> ref,
     has_source |-> FALSE, source |-> <<>>]

\* A variant of _load_scanners that puts each loaded scanner at the front.
RECURSIVE LoadScanners_Prepend(_)
LoadScanners_Prepend(cfg) ==
    IF cfg = <<>> THEN [run |-> <<>>, errs |-> <<>>]
    ELSE LET rest == LoadScanners_Prepend(Tail(cfg))
             s == Head(cfg)
         IN IF ~s.enabled THEN rest
            ELSE IF s.mode = "unresolvable"
                 THEN [run |-> rest.run,
                       errs |-> <<ModelScanError(s.id, "import", <<>>)>> \o rest.errs]
            ELSE [run |-> rest.run \o <<s.id>>, errs |-> rest.errs]

\* _load_scanners: the enabled scanners are resolved in configuration order;
\* one that cannot be resolved leaves an error and the loop goes on.  The class
\* is only looked up here, it is not called.
RECURSIVE LoadScanners(_)
LoadScanners(cfg) ==
    IF cfg = <<>> THEN [run |-> <<>>, errs |-> <<>>]
    ELSE LET rest == LoadScanners(Tail(cfg))
             s == Head(cfg)
         IN IF ~s.enabled THEN rest
            ELSE IF s.mode = "unresolvable"
                 THEN [run |-> rest.run,
                       errs |-> <<ModelScanError(s.id, "import", <<>>)>> \o rest.errs]
            ELSE [run |-> <<s.id>> \o rest.run, errs |-> rest.errs]

SlotOf(id) == CHOOSE i \in DOMAIN settings : settings[i].id = id
ScannerMode(id) == settings[SlotOf(id)].mode

\* ----------------------------------------------------------------- scanners

\* What one call scan_class(settings).scan(source, data) does: it returns None,
\* returns a result, or raises (any exception, or zipfile.BadZipFile).
Outcomes == {"null", "claim", "raise", "badzip"}

ScannerOutcomes(id) ==
    IF ScannerMode(id) = "uninstantiable" THEN {"raise"} ELSE Outcomes

\* The content of a result: a scanner that recognises a target reports one
\* issue when the target holds unsafe content, and one error, carrying the
\* source, when it cannot read the target to its end.
UnsafeNames == {"m.pkl", "e.pkl", "d.pkl"}
TroubleNames == {"a.zip:n.zip", "k.bin"}

ResultIssues(id, source) ==
    IF Last(source) \in UnsafeNames THEN <<[scanner |-> id, source |-> source]>> ELSE <<>>

ResultErrors(id, source) ==
    IF source # <<>> /\ Last(source) \in TroubleNames
    THEN <<[scan_name |-> id, kind |-> "scan", ref |-> source,
            has_source |-> TRUE, source |-> source]>>
    ELSE <<>>

\* ------------------------------------------------------------------ engine

\* The paths scan() is called with: relative to the working directory or absolute.
Rel(segs) == [abs |-> FALSE, segs |-> segs]
Abs(segs) == [abs |-> TRUE, segs |-> segs]
Dot == Rel(<<>>)
ScanInputs ==
    { Dot, Rel(<<"m.pkl">>), Rel(<<"a.zip">>), Abs(<<"r", "w", "a.zip">>), Rel(<<"..", "b.zip">>), Abs(<<"r", "b.zip">>),
      Abs(<<"r", "c.bin">>),
      Abs(<<"r", "t.pt">>), Abs(<<"r", "q">>), Abs(<<"r", "q", "s">>), Rel(<<"missing">>),
      Rel(<<"..", "missing">>), Abs(<<"r", "w", "missing">>),
      Rel(<<"..", "w", "m.pkl">>), Rel(<<"..", "..", "z", "f.txt">>) }

NoReport == [kind |-> "none"]

\* Path().cwd() if path == "." else Path(path).absolute(): the path _scan_path
\* is first called with.
StartPath(ip) == IF ip = Dot THEN Cwd ELSE Absolute(ip)

\* A frame of the call stack.  op: "path" (_scan_path, before the existence
\* check), "source" (_scan_source, before the scanner idx), "path_ret"
\* (_scan_path, _scan_source has returned), "dir" (_scan_directory), "zip"
\* (_scan_zip, before the archive is opened), "zip_iter" (_scan_zip, before an
\* entry), "entry_ret" (_scan_zip, _scan_source has returned for the entry
\* Head(items)).
Frame(op, src, idx, scanned, items) ==
    [op |-> op, src |-> src, idx |-> idx, scanned |-> scanned, items |-> items]

Top == Head(stack)
Running(op) == pc = "run" /\ stack # <<>> /\ Top.op = op

Event(ev, src, scanner, out) == [ev |-> ev, src |-> src, scanner |-> scanner, out |-> out]

\* scan(): the session is reset and _scan_path is called on the absolute path.
ResetErrors_Keep == _errors \o _init_errors
ResetErrors == _init_errors

ScanCall(path) ==
    /\ pc \in {"idle", "done", "raised"}
    /\ callNo < MaxScans
    /\ callNo' = callNo + 1
    /\ _issues' = <<>>
    /\ _errors' = ResetErrors
    /\ _skipped' = <<>>
    /\ _scanned' = <<>>
    /\ _input_path' = path
    /\ stack' = << Frame("path", StartPath(path), 0, FALSE, <<>>) >>
    /\ pc' = "run"
    /\ raised' = "none"
    /\ report' = NoReport
    /\ calls' = <<>>
    /\ UNCHANGED <<resVars, probe>>
    /\ UNCHANGED <<settings, _scanners_to_run, _init_errors>>

\* _scan_path, the existence check: a path that does not exist is an error and
\* is skipped; one that exists is offered to the scanners first.
PathEnter ==
    /\ Running("path")
    /\ IF Exists(Top.src)
       THEN /\ stack' = << Frame("source", Top.src, 1, FALSE, <<>>),
                           Frame("path_ret", Top.src, 0, FALSE, <<>>) >> \o Tail(stack)
            /\ calls' = Append(calls, Event("dispatch", Top.src, "", ""))
            /\ UNCHANGED <<_errors, _skipped>>
       ELSE /\ _errors' = Append(_errors, ModelScanError("ModelScan", "not valid", Top.src))
            /\ _skipped' = Append(_skipped, Top.src)
            /\ stack' = Tail(stack)
            /\ UNCHANGED calls
    /\ UNCHANGED <<resVars, probe>>
    /\ UNCHANGED <<settings, _scanners_to_run, _init_errors, _issues, _scanned,
                   _input_path, pc, raised, report, callNo>>

\* The frames left when an exception leaves _scan_source: zipfile.BadZipFile is
\* caught by the _scan_zip the call was made from; anything else leaves scan().
InZip == Len(stack) >= 2 /\ stack[2].op = "entry_ret"
Caught(exc) == exc = "BadZipFile" /\ InZip

\* The scanners _scan_source still has to try after the one at idx.
NextIdx_StopAtClaim(idx, out) ==
    IF out = "claim" THEN Len(_scanners_to_run) + 1 ELSE idx + 1
NextIdx(idx, out) == idx + 1

\* A variant of the append to _scanned that lists a source once.
RecordScanned_Once(source) ==
    IF source \in SeqToSet(_scanned) THEN _scanned ELSE Append(_scanned, source)

\* self._scanned.append(str(source)), for a scanner that returned a result.
RecordScanned(source) == Append(_scanned, source)

\* _scan_source, one turn of the loop: the scanner is constructed and called.
Dispatch(out) ==
    /\ Running("source")
    /\ Top.idx <= Len(_scanners_to_run)
    /\ LET id == _scanners_to_run[Top.idx]
           exc == IF out = "badzip" THEN "BadZipFile" ELSE "Exception"
       IN /\ out \in ScannerOutcomes(id)
          /\ calls' = Append(calls, Event("offer", Top.src, id, out))
          /\ IF out = "null"
             THEN /\ stack' = <<[Top EXCEPT !.idx = NextIdx(Top.idx, out)]>> \o Tail(stack)
                  /\ UNCHANGED <<_scanned, _issues, _errors, _skipped, pc, raised>>
             ELSE IF out = "claim"
             THEN /\ _scanned' = RecordScanned(Top.src)
                  /\ _issues' = _issues \o ResultIssues(id, Top.src)
                  /\ _errors' = _errors \o ResultErrors(id, Top.src)
                  /\ stack' = <<[Top EXCEPT !.idx = NextIdx(Top.idx, out),
                                            !.scanned = TRUE]>> \o Tail(stack)
                  /\ UNCHANGED <<_skipped, pc, raised>>
             ELSE IF Caught(exc)
             THEN /\ _skipped' = Append(_skipped, stack[2].src)
                  /\ stack' = SubSeq(stack, 3, Len(stack))
                  /\ UNCHANGED <<_scanned, _issues, _errors, pc, raised>>
             ELSE /\ pc' = "raised"
                  /\ raised' = exc
                  /\ stack' = <<>>
                  /\ UNCHANGED <<_scanned, _issues, _errors, _skipped>>
    /\ UNCHANGED <<resVars, probe>>
    /\ UNCHANGED <<settings, _scanners_to_run, _init_errors, _input_path, report, callNo>>

\* _scan_source returns whether some scanner returned a result.
SourceReturn ==
    /\ Running("source")
    /\ Top.idx > Len(_scanners_to_run)
    /\ stack' = <<[stack[2] EXCEPT !.scanned = Top.scanned]>> \o SubSeq(stack, 3, Len(stack))
    /\ calls' = Append(calls, Event("return", Top.src, "", IF Top.scanned THEN "True" ELSE "False"))
    /\ UNCHANGED <<resVars, probe>>
    /\ UNCHANGED <<settings, _scanners_to_run, _init_errors, _issues, _errors, _skipped,
                   _scanned, _input_path, pc, raised, report, callNo>>

\* The entries of a directory, in the order the filesystem yields them.
RECURSIVE SetToSeq(_)
SetToSeq(S) ==
    IF S = {} THEN <<>>
    ELSE LET x == CHOOSE y \in S : TRUE IN <<x>> \o SetToSeq(S \ {x})

Listing(node) ==
    SetToSeq({ Last(p) : p \in { q \in FSPaths : Len(q) = Len(node) + 1 /\ IsPrefix(node, q) } })

\* directory_path.rglob("*"): every path below the directory, each written as
\* the directory's path followed by the names that lead to it.
RECURSIVE RGlobNames(_, _)
RGlobNames(dir, names) ==
    IF names = <<>> THEN <<>>
    ELSE LET c == Append(dir, Head(names))
         IN <<c>> \o (IF IsDir(c) THEN RGlobNames(c, Listing(Resolve(c))) ELSE <<>>)
                 \o RGlobNames(dir, Tail(names))

\* The directories scan() is called with, and what rglob yields for each; the
\* disk does not change, so the walks are computed once.
ScannedDirs == { d \in { StartPath(ip) : ip \in ScanInputs } : IsDir(d) }
RGlobTable == [d \in ScannedDirs |-> RGlobNames(d, Listing(Resolve(d)))]

RGlob(dir) == RGlobTable[dir]

RECURSIVE SelectNotDir(_)
SelectNotDir(ps) ==
    IF ps = <<>> THEN <<>>
    ELSE (IF IsDir(Head(ps)) THEN <<>> ELSE <<Head(ps)>>) \o SelectNotDir(Tail(ps))

\* _is_zipfile(path): the content of the file starts with the archive signature.
IsZipfile(path) == Node(path).kind = "file" /\ Node(path).magic
\* _is_zipfile(file_name, data=file_io), for an entry of an archive.
IsZipfileEntry(name) == name \in MagicEntries

\* _scan_path after _scan_source has returned: which fallback the path takes.
\* "dir": _scan_directory; "zip": _scan_zip; "skip": recorded as skipped; "stop".
Fallback(path, scanned) ==
    IF ~scanned /\ IsDir(path) THEN "dir"
    ELSE IF IsZipfile(path) \/ Suffix(Last(path)) \in supported_zip_extensions THEN "zip"
    ELSE IF ~scanned THEN "skip"
    ELSE "stop"

PathBranch ==
    /\ Running("path_ret")
    /\ LET f == Fallback(Top.src, Top.scanned)
       IN /\ stack' = IF f = "dir"
                      THEN <<Frame("dir", Top.src, 0, FALSE, SelectNotDir(RGlob(Top.src)))>>
                           \o Tail(stack)
                      ELSE IF f = "zip"
                      THEN <<Frame("zip", Top.src, 0, FALSE, <<>>)>> \o Tail(stack)
                      ELSE Tail(stack)
          /\ _skipped' = IF f = "skip" THEN Append(_skipped, Top.src) ELSE _skipped
          /\ calls' = IF f \in {"dir", "zip"}
                      THEN Append(calls, Event(f, Top.src, "", ""))
                      ELSE calls
    /\ UNCHANGED <<resVars, probe>>
    /\ UNCHANGED <<settings, _scanners_to_run, _init_errors, _issues, _errors, _scanned,
                   _input_path, pc, raised, report, callNo>>

\* A variant of _scan_directory that never moves on to the next path.
DirNext_NoAdvance ==
    /\ Running("dir")
    /\ stack' = IF Top.items = <<>> THEN Tail(stack)
                ELSE <<Frame("path", Head(Top.items), 0, FALSE, <<>>)>> \o stack
    /\ UNCHANGED <<resVars, probe>>
    /\ UNCHANGED <<settings, _scanners_to_run, _init_errors, _issues, _errors, _skipped,
                   _scanned, _input_path, pc, raised, report, calls, callNo>>

\* _scan_directory, one turn of the loop: _scan_path on the next path that is
\* not a directory; the function returns when there is none left.
DirNext ==
    /\ Running("dir")
    /\ stack' = IF Top.items = <<>> THEN Tail(stack)
                ELSE <<Frame("path", Head(Top.items), 0, FALSE, <<>>),
                       [Top EXCEPT !.items = Tail(Top.items)]>> \o Tail(stack)
    /\ UNCHANGED <<resVars, probe>>
    /\ UNCHANGED <<settings, _scanners_to_run, _init_errors, _issues, _errors, _skipped,
                   _scanned, _input_path, pc, raised, report, calls, callNo>>

\* A variant of _scan_zip that records an error for a file that is no archive.
ZipOpen_RecordsError ==
    /\ Running("zip")
    /\ IF Node(Top.src).kind = "dir"
       THEN /\ pc' = "raised"
            /\ raised' = "IsADirectoryError"
            /\ stack' = <<>>
            /\ UNCHANGED <<_skipped, _errors>>
       ELSE IF Node(Top.src).zip = "ok"
       THEN /\ stack' = <<Frame("zip_iter", Top.src, 0, FALSE, Node(Top.src).entries)>>
                        \o Tail(stack)
            /\ UNCHANGED <<_skipped, _errors, pc, raised>>
       ELSE /\ _skipped' = Append(_skipped, Top.src)
            /\ _errors' = Append(_errors, ModelScanError("ModelScan", "bad zip", Top.src))
            /\ stack' = Tail(stack)
            /\ UNCHANGED <<pc, raised>>
    /\ UNCHANGED <<resVars, probe>>
    /\ UNCHANGED <<settings, _scanners_to_run, _init_errors, _issues, _scanned,
                   _input_path, report, calls, callNo>>

\* _scan_zip, zipfile.ZipFile(source): a file that is no archive raises
\* BadZipFile, which _scan_zip catches: the path is skipped.  A directory
\* cannot be opened at all, and that exception is not caught.
ZipOpen ==
    /\ Running("zip")
    /\ IF Node(Top.src).kind = "dir"
       THEN /\ pc' = "raised"
            /\ raised' = "IsADirectoryError"
            /\ stack' = <<>>
            /\ UNCHANGED _skipped
       ELSE IF Node(Top.src).zip = "ok"
       THEN /\ stack' = <<Frame("zip_iter", Top.src, 0, FALSE, Node(Top.src).entries)>>
                        \o Tail(stack)
            /\ UNCHANGED <<_skipped, pc, raised>>
       ELSE /\ _skipped' = Append(_skipped, Top.src)
            /\ stack' = Tail(stack)
            /\ UNCHANGED <<pc, raised>>
    /\ UNCHANGED <<resVars, probe>>
    /\ UNCHANGED <<settings, _scanners_to_run, _init_errors, _issues, _errors, _scanned,
                   _input_path, report, calls, callNo>>

\* _scan_zip, one turn of the loop: the entry is opened and offered to the
\* scanners under the name source:entry.  An entry that cannot be opened
\* raises BadZipFile: the whole archive is skipped.
ZipNext ==
    /\ Running("zip_iter")
    /\ IF Top.items = <<>>
       THEN /\ stack' = Tail(stack)
            /\ UNCHANGED <<_skipped, calls>>
       ELSE IF Head(Top.items) \in CorruptEntries
       THEN /\ _skipped' = Append(_skipped, Top.src)
            /\ stack' = Tail(stack)
            /\ UNCHANGED calls
       ELSE /\ stack' = <<Frame("source", EntrySource(Top.src, Head(Top.items)), 1, FALSE, <<>>),
                          [Top EXCEPT !.op = "entry_ret"]>> \o Tail(stack)
            /\ calls' = Append(calls, Event("dispatch", EntrySource(Top.src, Head(Top.items)), "", ""))
            /\ UNCHANGED _skipped
    /\ UNCHANGED <<resVars, probe>>
    /\ UNCHANGED <<settings, _scanners_to_run, _init_errors, _issues, _errors, _scanned,
                   _input_path, pc, raised, report, callNo>>

\* The errors _scan_zip records for an entry no scanner returned a result for.
EntryErrors_None(source, name) == <<>>
EntryErrors(source, name) ==
    IF IsZipfileEntry(name)
    THEN <<ModelScanError("ModelScan", "nested zip", EntrySource(source, name))>>
    ELSE <<>>

\* _scan_zip after _scan_source has returned for an entry.
EntryReturn ==
    /\ Running("entry_ret")
    /\ LET name == Head(Top.items)
       IN /\ _errors' = IF Top.scanned THEN _errors ELSE _errors \o EntryErrors(Top.src, name)
          /\ _skipped' = IF Top.scanned THEN _skipped
                         ELSE Append(_skipped, EntrySource(Top.src, name))
          /\ stack' = <<[Top EXCEPT !.op = "zip_iter", !.items = Tail(Top.items),
                                    !.scanned = FALSE]>> \o Tail(stack)
    /\ UNCHANGED <<resVars, probe>>
    /\ UNCHANGED <<settings, _scanners_to_run, _init_errors, _issues, _scanned,
                   _input_path, pc, raised, report, calls, callNo>>

\* ------------------------------------------------------------------ report

\* The report root: Path(self._input_path).resolve(), or its parent when the
\* input path is a file.
ReportRoot(ip) ==
    IF IsFile(Absolute(ip)) THEN Parent(Resolve(Absolute(ip))) ELSE Resolve(Absolute(ip))

\* Path(file_name).relative_to(root) is defined when root's segments begin
\* file_name's, and is what follows them (the empty sequence is ".").
Relative(p, root) == IsPrefix(root, p)
RelativeTo(p, root) == SubSeq(p, Len(root) + 1, Len(p))

RECURSIVE Sources(_)
Sources(es) ==
    IF es = <<>> THEN <<>>
    ELSE (IF Head(es).has_source THEN <<Head(es).source>> ELSE <<>>) \o Sources(Tail(es))

\* Every path _generate_results rewrites, in the order it gets to them.
ReportedPaths ==
    _skipped \o _scanned \o [i \in DOMAIN _issues |-> _issues[i].source] \o Sources(_errors)

MakeReport(root) ==
    [kind |-> "report",
     total_issues |-> Len(_issues),
     input_path |-> _input_path,
     absolute_path |-> root,
     total_skipped |-> Len(_skipped),
     skipped_files |-> [i \in DOMAIN _skipped |-> RelativeTo(_skipped[i], root)],
     total_scanned |-> Len(_scanned),
     scanned_files |-> [i \in DOMAIN _scanned |-> RelativeTo(_scanned[i], root)],
     issues |-> [i \in DOMAIN _issues |->
                    [_issues[i] EXCEPT !.source = RelativeTo(_issues[i].source, root)]],
     errors |-> [i \in DOMAIN _errors |->
                    [description |-> [kind |-> _errors[i].kind, ref |-> _errors[i].ref],
                     has_source |-> _errors[i].has_source,
                     source |-> IF _errors[i].has_source
                                THEN RelativeTo(_errors[i].source, root) ELSE <<>>]]]

\* _generate_results: scan() returns the report, or relative_to raises
\* ValueError at the first path that does not lie under the root.
GenerateResults ==
    /\ pc = "run"
    /\ stack = <<>>
    /\ LET root == ReportRoot(_input_path)
       IN IF \A i \in DOMAIN ReportedPaths : Relative(ReportedPaths[i], root)
          THEN /\ report' = MakeReport(root)
               /\ pc' = "done"
               /\ UNCHANGED raised
          ELSE /\ pc' = "raised"
               /\ raised' = "ValueError"
               /\ UNCHANGED report
    /\ UNCHANGED <<resVars, probe>>
    /\ UNCHANGED <<settings, _scanners_to_run, _init_errors, _issues, _errors, _skipped,
                   _scanned, _input_path, stack, calls, callNo>>

\* ------------------------------------------------------- compatibility probe

\* The paths is_compatible() is called with; none of them is opened.
ProbePaths ==
    { Rel(<<"m.pkl">>), Rel(<<"k.bin">>), Abs(<<"r", "t.pt">>), Rel(<<"w.h5">>),
      Rel(<<"a.zip">>), Rel(<<"notes">>) }

NoProbe == [kind |-> "none"]

\* is_compatible(path): the suffix is an archive extension, or one of the
\* supported_extensions of a scanner of the settings.
is_compatible(path) ==
    \/ Suffix(Last(path.segs)) \in supported_zip_extensions
    \/ \E i \in DOMAIN settings : Suffix(Last(path.segs)) \in settings[i].supported_extensions

\* A call of is_compatible, made while no scan() is running.
IsCompatible(path) ==
    /\ pc \in {"idle", "done", "raised"}
    /\ probe' = [kind |-> "probe", path |-> path, result |-> is_compatible(path)]
    /\ UNCHANGED resVars
    /\ UNCHANGED <<settings, _scanners_to_run, _init_errors, _issues, _errors, _skipped,
                   _scanned, _input_path, pc, stack, raised, report, calls, callNo>>

\* ------------------------------------------------------------------- Model

\* The sources a Model is constructed over.
ModelSources == { <<"r", "w", "m.pkl">>, <<"r", "w", "missing">> }

\* A byte stream: who created it, who closed it ("none" while it is open), and
\* its position.
Handle(external) == [external |-> external, closedBy |-> "none", pos |-> 0]

Outcome(op, result) == [op |-> op, result |-> result]

\* A variant of open() without the test of self._stream.
OpenEffect_Always ==
    IF IsFile(res.source)
    THEN [res |-> [res EXCEPT !.stream = Len(handles) + 1, !.used = TRUE],
          handles |-> Append(handles, Handle(FALSE)),
          result |-> "opened"]
    ELSE [res |-> res, handles |-> handles, result |-> "OSError"]

\* open(): nothing when a stream is attached; otherwise the source is opened
\* for reading (open() raises when there is no such file, before anything is
\* assigned) and the Model owns the stream.
OpenEffect ==
    IF res.stream # 0
    THEN [res |-> res, handles |-> handles, result |-> "already"]
    ELSE IF IsFile(res.source)
    THEN [res |-> [res EXCEPT !.stream = Len(handles) + 1, !.used = TRUE],
          handles |-> Append(handles, Handle(FALSE)),
          result |-> "opened"]
    ELSE [res |-> res, handles |-> handles, result |-> "OSError"]

\* A variant of close() without the test of self._source_file_used.
CloseEffect_AnyStream ==
    IF res.stream # 0 /\ handles[res.stream].closedBy = "none"
    THEN [handles EXCEPT ![res.stream].closedBy = "model"]
    ELSE handles

\* close(): the stream is closed when there is one and open() created it.
CloseEffect ==
    IF res.stream # 0 /\ res.used /\ handles[res.stream].closedBy = "none"
    THEN [handles EXCEPT ![res.stream].closedBy = "model"]
    ELSE handles

Open ==
    /\ Len(handles) < MaxOpens
    /\ res' = OpenEffect.res
    /\ handles' = OpenEffect.handles
    /\ resOut' = Outcome("open", OpenEffect.result)
    /\ UNCHANGED inBlock
    /\ UNCHANGED engineVars

\* A variant of close() that forgets the stream it has closed.
Close_Detach ==
    /\ handles' = CloseEffect
    /\ resOut' = Outcome("close", "ok")
    /\ res' = IF res.stream # 0 /\ res.used THEN [res EXCEPT !.stream = 0] ELSE res
    /\ UNCHANGED inBlock
    /\ UNCHANGED engineVars

\* close()
Close ==
    /\ handles' = CloseEffect
    /\ resOut' = Outcome("close", "ok")
    /\ UNCHANGED <<res, inBlock>>
    /\ UNCHANGED engineVars

\* get_stream(offset): ModelDataEmpty without a stream; otherwise the stream is
\* moved to the offset (seek raises ValueError on a closed stream) and returned.
GetStream(offset) ==
    /\ IF res.stream = 0
       THEN /\ resOut' = Outcome("get_stream", "ModelDataEmpty")
            /\ UNCHANGED handles
       ELSE IF handles[res.stream].closedBy # "none"
       THEN /\ resOut' = Outcome("get_stream", "ValueError")
            /\ UNCHANGED handles
       ELSE /\ handles' = [handles EXCEPT ![res.stream].pos = offset]
            /\ resOut' = Outcome("get_stream", "stream")
    /\ UNCHANGED <<res, inBlock>>
    /\ UNCHANGED engineVars

\* __enter__: open(); the block is entered unless open() raises.
Enter ==
    /\ ~inBlock
    /\ Len(handles) < MaxOpens
    /\ res' = OpenEffect.res
    /\ handles' = OpenEffect.handles
    /\ resOut' = Outcome("enter", OpenEffect.result)
    /\ inBlock' = (OpenEffect.result # "OSError")
    /\ UNCHANGED engineVars

\* A variant of __exit__ that calls close() only when no exception is passed.
ExitEffect_NormalOnly(by) == IF by = "normal" THEN CloseEffect ELSE handles

\* __exit__(exc_type, exc_value, traceback): close(), whatever it is passed.
ExitEffect(by) == CloseEffect

\* The with block is left, normally or by an exception, and __exit__ is called.
Exit(by) ==
    /\ inBlock
    /\ handles' = ExitEffect(by)
    /\ resOut' = Outcome("exit", by)
    /\ inBlock' = FALSE
    /\ UNCHANGED res
    /\ UNCHANGED engineVars

\* The owner of a stream that was passed to the Model closes it.
OwnerCloses ==
    /\ \E h \in DOMAIN handles :
          /\ handles[h].external
          /\ handles[h].closedBy = "none"
          /\ handles' = [handles EXCEPT ![h].closedBy = "owner"]
    /\ resOut' = Outcome("owner", "closed")
    /\ UNCHANGED <<res, inBlock>>
    /\ UNCHANGED engineVars

\* ------------------------------------------------------------ specification

NoModel == [source |-> <<>>, stream |-> 0, used |-> FALSE]

\* ModelScan.__init__: empty session, and the scanners loaded from the settings.
EngineInit ==
    /\ \E c \in Configurations :
          /\ settings = MakeSettings(c)
          /\ _scanners_to_run = LoadScanners(MakeSettings(c)).run
          /\ _init_errors = LoadScanners(MakeSettings(c)).errs
    /\ _issues = <<>>
    /\ _errors = <<>>
    /\ _skipped = <<>>
    /\ _scanned = <<>>
    /\ _input_path = Rel(<<>>)
    /\ pc = "idle"
    /\ stack = <<>>
    /\ raised = "none"
    /\ report = NoReport
    /\ calls = <<>>
    /\ callNo = 0
    /\ probe = NoProbe

Init ==
    /\ EngineInit
    /\ res = NoModel
    /\ handles = <<>>
    /\ resOut = Outcome("init", "ok")
    /\ inBlock = FALSE

EngineNext ==
    \/ \E path \in ScanInputs : ScanCall(path)
    \/ PathEnter
    \/ \E out \in Outcomes : Dispatch(out)
    \/ SourceReturn
    \/ PathBranch
    \/ DirNext
    \/ ZipOpen
    \/ ZipNext
    \/ EntryReturn
    \/ GenerateResults

Next == EngineNext

Spec == Init /\ [][Next]_vars

\* A scan() that was called goes on running: the interpreter executes its next
\* statement, and every scanner call comes back (with a value or an exception).
ScanStep ==
    \/ PathEnter
    \/ \E out \in Outcomes : Dispatch(out)
    \/ SourceReturn
    \/ PathBranch
    \/ DirNext
    \/ ZipOpen
    \/ ZipNext
    \/ EntryReturn
    \/ GenerateResults

FairSpec == Spec /\ WF_vars(ScanStep)

\* scan() and is_compatible() called in any order on one engine instance.
ProbeScanInputs ==
    { Rel(<<"m.pkl">>), Rel(<<"a.zip">>), Abs(<<"r", "q", "s">>), Rel(<<"missing">>) }

ProbeNext ==
    \/ \E path \in ProbeScanInputs : ScanCall(path)
    \/ PathEnter
    \/ \E out \in Outcomes : Dispatch(out)
    \/ SourceReturn
    \/ PathBranch
    \/ DirNext
    \/ ZipOpen
    \/ ZipNext
    \/ EntryReturn
    \/ GenerateResults
    \/ \E path \in ProbePaths : IsCompatible(path)

ProbeSpec == Init /\ [][ProbeNext]_vars

\* Model.__init__(source, stream): a Model over a source, with the stream that
\* was passed to it, if any; beside it an engine that is never called.
ModelInit ==
    /\ \E source \in ModelSources, given \in BOOLEAN :
          /\ res = [source |-> source, stream |-> IF given THEN 1 ELSE 0, used |-> FALSE]
          /\ handles = IF given THEN <<Handle(TRUE)>> ELSE <<>>
    /\ resOut = Outcome("init", "ok")
    /\ inBlock = FALSE
    /\ EngineInit
    /\ \A i \in DOMAIN settings : settings[i].enabled /\ settings[i].mode = "ok"

ModelNext ==
    \/ Open
    \/ Close
    \/ \E offset \in 0..MaxOffset : GetStream(offset)
    \/ Enter
    \/ \E by \in {"normal", "error"} : Exit(by)
    \/ OwnerCloses

ModelSpec == ModelInit /\ [][ModelNext]_vars

\* ------------------------------------------------------------- properties

Events(ev) == { calls[i] : i \in { j \in DOMAIN calls : calls[j].ev = ev } }
Scanned == SeqToSet(_scanned)
Skipped == SeqToSet(_skipped)
\* scan() has returned its report.
Returned == pc = "done"
\* The strings of the entries of the archives _scan_zip has opened.
EntrySourcesIn(names) ==
    { EntrySource(z.src, n) : z \in { y \in Events("zip") : Node(y.src).zip = "ok" },
                              n \in names }

\* C1: after scan() has returned, every leaf it visited (a file, or an archive
\* entry source:entry) is in exactly one of _scanned and _skipped.
C1_LeafInExactlyOne ==
    Returned =>
        \A e \in Events("dispatch") :
            ~IsDir(e.src) => ((e.src \in Scanned) # (e.src \in Skipped))

\* C2: a path some scanner returned a result for on the direct attempt is
\* recorded as scanned, and neither _scan_directory nor _scan_zip is entered
\* for it.
C2_NoFallbackAfterClaim ==
    \A e \in Events("return") :
        (e.out = "True" /\ Exists(e.src)) =>
            /\ e.src \in Scanned
            /\ \A f \in Events("dir") \cup Events("zip") : f.src # e.src

\* C4: nothing met while the tree is walked or a scanner is called makes scan()
\* raise: every such condition ends in the error list of a returned report.
C4_WalkNeverRaises ==
    raised \notin {"Exception", "BadZipFile", "IsADirectoryError"}

\* Every source string a scan of ip can come to: the path, what lies below it,
\* and the entries of the archives among them.
FsTargets(ip) ==
    {StartPath(ip)} \cup
    (IF IsDir(StartPath(ip)) THEN SeqToSet(RGlob(StartPath(ip))) ELSE {})
Targets(ip) ==
    FsTargets(ip) \cup
    UNION { { EntrySource(a, n) : n \in SeqToSet(Node(a).entries) } :
            a \in { t \in FsTargets(ip) : Exists(t) } }

SessionPaths == Scanned \cup Skipped \cup { _issues[i].source : i \in DOMAIN _issues }

\* C3 (as stated): when scan() is called, all four session sequences are empty
\* at its start.
C3_AllFourEmptyAtStart ==
    [][callNo' # callNo =>
          /\ _scanned' = <<>>
          /\ _skipped' = <<>>
          /\ _issues' = <<>>
          /\ _errors' = <<>>]_vars

\* C3 (amended): when scan() is called, _scanned, _skipped and _issues are
\* empty and _errors holds exactly the initialization errors; from then on the
\* session names, besides those errors, only sources reached from the path of
\* this call.
C3_SessionOfThisCallOnly ==
    [][/\ callNo' # callNo =>
              /\ _scanned' = <<>>
              /\ _skipped' = <<>>
              /\ _issues' = <<>>
              /\ _errors' = _init_errors'
       /\ SessionPaths' \subseteq Targets(_input_path')
       /\ \A i \in DOMAIN _errors' :
              \/ i <= Len(_init_errors') /\ _errors'[i] = _init_errors'[i]
              \/ _errors'[i].ref \in Targets(_input_path')]_vars

\* A second scan() has returned a report with content, on an engine that holds
\* an initialization error.
C3_Witness ==
    /\ callNo = 2
    /\ Returned
    /\ _init_errors # <<>>
    /\ _scanned # <<>>
    /\ _skipped # <<>>
    /\ Len(_errors) > Len(_init_errors)

\* The entries of opened archives that _scan_source has returned for.
ReturnedNested ==
    { e \in Events("return") : e.src \in EntrySourcesIn(MagicEntries) }
NestingError(src) ==
    \E i \in DOMAIN _errors : _errors[i].kind = "nested zip" /\ _errors[i].ref = src
\* The entries inside the nested archives.
InnerNames == { <<"z.pkl">> }
InnerSources == { EntrySource(s, n) : s \in EntrySourcesIn(MagicEntries), n \in InnerNames }

\* C5 (as stated): after scan() has returned, every entry that is itself an
\* archive is in _skipped, with a nesting error that names it.
C5_NestedAlwaysSkipped ==
    Returned =>
        \A e \in ReturnedNested : e.src \in Skipped /\ NestingError(e.src)

\* C5 (amended): after scan() has returned, every entry that no scanner
\* returned a result for and that is itself an archive is in _skipped, with a
\* nesting error that names it; and no entry inside it was offered to a scanner.
C5_UnclaimedNestedSkipped ==
    /\ Returned =>
          \A e \in ReturnedNested :
              e.out = "False" => (e.src \in Skipped /\ NestingError(e.src))
    /\ \A d \in Events("dispatch") \cup Events("offer") : d.src \notin InnerSources

C5_Witness ==
    /\ Returned
    /\ \E e \in ReturnedNested : e.out = "False" /\ e.src \in Skipped /\ NestingError(e.src)

\* C6: scan() of a path that does not exist returns a report with the path as
\* its only skipped file, no scanned file and, besides the initialization
\* errors, exactly one error, which names the path.
C6_MissingPathReport ==
    (callNo > 0 /\ pc \in {"done", "raised"} /\ ~Exists(StartPath(_input_path))) =>
        /\ Returned
        /\ _skipped = <<StartPath(_input_path)>>
        /\ report.total_skipped = 1
        /\ report.scanned_files = <<>>
        /\ Len(report.errors) = Len(_init_errors) + 1
        /\ report.errors[Len(report.errors)].description.ref = StartPath(_input_path)

\* The configured scanners that are enabled and cannot be resolved or constructed.
BrokenScanners ==
    { settings[i].id : i \in { j \in DOMAIN settings :
                                  settings[j].enabled /\ settings[j].mode # "ok" } }
InitErrorFor(id) == \E i \in DOMAIN _init_errors : _init_errors[i].scan_name = id
\* scan() was left by the exception that constructing the scanner id raised.
RaisedBy(id) ==
    /\ pc = "raised"
    /\ raised = "Exception"
    /\ calls # <<>>
    /\ Last(calls).ev = "offer"
    /\ Last(calls).scanner = id

\* C7: a configured scanner that fails to resolve or to instantiate leaves an
\* initialization error that names it and is not run, and a scan() in which
\* another scanner returned a result for a target returns its report.
C7_BrokenScannerIsolated ==
    \A id \in BrokenScanners :
        (/\ \E o \in Events("offer") : o.out = "claim"
         /\ (Returned \/ RaisedBy(id))) =>
            /\ InitErrorFor(id)
            /\ id \notin SeqToSet(_scanners_to_run)
            /\ Returned

\* The files of a directory that has no subdirectory.
FilesOf(dir) == SeqToSet(RGlob(dir))
FlatDirectory(dir) == IsDir(dir) /\ \A f \in FilesOf(dir) : IsFile(f)

\* C8: after scan() of a directory without subdirectories that no scanner
\* returned a result for, _scanned and _skipped together hold each file of the
\* directory exactly once, and nothing else.
C8_EachFileExactlyOnce ==
    (/\ Returned
     /\ FlatDirectory(StartPath(_input_path))
     /\ StartPath(_input_path) \notin Scanned) =>
        /\ \A f \in FilesOf(StartPath(_input_path)) : Count(f, _scanned \o _skipped) = 1
        /\ Scanned \cup Skipped \subseteq FilesOf(StartPath(_input_path))

\* What the scanner calls made so far have returned, in the order of the calls.
RECURSIVE ClaimedOf(_)
ClaimedOf(evs) ==
    IF evs = <<>> THEN <<>>
    ELSE (IF Head(evs).ev = "offer" /\ Head(evs).out = "claim"
          THEN <<Head(evs)>> ELSE <<>>) \o ClaimedOf(Tail(evs))
RECURSIVE IssuesOf(_)
IssuesOf(cl) ==
    IF cl = <<>> THEN <<>>
    ELSE ResultIssues(Head(cl).scanner, Head(cl).src) \o IssuesOf(Tail(cl))
RECURSIVE ErrorsOf(_)
ErrorsOf(cl) ==
    IF cl = <<>> THEN <<>>
    ELSE ResultErrors(Head(cl).scanner, Head(cl).src) \o ErrorsOf(Tail(cl))
IsScanError(e) == e.kind = "scan"

\* The call of _scan_source that returned at calls[j] began at calls[j - n - 1]
\* and tried the n loaded scanners in between.
DispatchAt(j) ==
    LET n == Len(_scanners_to_run)
        k == j - n - 1
    IN /\ k >= 1
       /\ calls[k].ev = "dispatch"
       /\ calls[k].src = calls[j].src
       /\ \A m \in 1..n :
              /\ calls[k + m].ev = "offer"
              /\ calls[k + m].src = calls[j].src
              /\ calls[k + m].scanner = _scanners_to_run[m]
       /\ (calls[j].out = "True") <=> (\E m \in 1..n : calls[k + m].out = "claim")

\* C9: every call of _scan_source that returns has offered its target to every
\* loaded scanner, in the order of the registry, and returns True exactly when
\* one of them returned a result; the issues and errors of the session are
\* those of the results returned, in the order of the calls.
C9_DispatchTriesEveryScanner ==
    /\ \A j \in DOMAIN calls : calls[j].ev = "return" => DispatchAt(j)
    /\ _issues = IssuesOf(ClaimedOf(calls))
    /\ SelectSeq(_errors, IsScanError) = ErrorsOf(ClaimedOf(calls))

\* A dispatch over three scanners has returned: the first and the third
\* returned a result, the second None, and both results carried an issue.
C9_Witness ==
    /\ Len(_scanners_to_run) = 3
    /\ Len(calls) = 5
    /\ calls[5].ev = "return"
    /\ calls[5].out = "True"
    /\ calls[2].out = "claim"
    /\ calls[3].out = "null"
    /\ calls[4].out = "claim"
    /\ Len(_issues) = 2

\* C10: open() on a Model that has a stream changes nothing and creates no
\* stream; get_stream() on a Model without a stream raises ModelDataEmpty and
\* changes nothing.
C10_OpenIdempotentGetStreamEmpty ==
    [][/\ (resOut'.op = "open" /\ res.stream # 0) =>
              /\ resOut'.result = "already"
              /\ res' = res
              /\ handles' = handles
       /\ (resOut'.op = "get_stream" /\ res.stream = 0) =>
              /\ resOut'.result = "ModelDataEmpty"
              /\ res' = res
              /\ handles' = handles]_vars

\* open() has returned without opening anything, on a Model that had opened its
\* source itself: one stream exists.
C10_Witness ==
    /\ resOut = Outcome("open", "already")
    /\ res.used
    /\ Len(handles) = 1
    /\ handles[1].closedBy = "none"

\* C11: _source_file_used is true exactly when the Model opened its stream
\* itself; a stream that was passed to the Model is never closed by the Model;
\* close() on a Model that has no stream, or whose stream was passed to it,
\* changes nothing.
C11_OwnsOnlyWhatItOpened ==
    /\ [](/\ res.used <=> (res.stream # 0 /\ ~handles[res.stream].external)
          /\ \A h \in DOMAIN handles : handles[h].external => handles[h].closedBy # "model")
    /\ [][(resOut'.op = "close" /\ (res.stream = 0 \/ handles[res.stream].external)) =>
              /\ res' = res
              /\ handles' = handles]_vars

\* close() has returned on a Model whose stream was passed to it: the stream is
\* still open.
C11_Witness ==
    /\ resOut = Outcome("close", "ok")
    /\ res.stream = 1
    /\ handles[1].external
    /\ handles[1].closedBy = "none"
    /\ ~res.used

\* C12: when the with block over a Model is left, normally or by an exception,
\* __exit__ has called close(): a stream the Model opened itself is closed from
\* then on, whatever is called on the Model afterwards.
C12_BlockExitReleases ==
    /\ [][(inBlock /\ ~inBlock') =>
              /\ resOut'.op = "exit"
              /\ res'.used => handles'[res'.stream].closedBy = "model"]_vars
    /\ []((~inBlock /\ resOut.op = "exit" /\ res.used) => handles[res.stream].closedBy = "model")
    /\ [][(res.used /\ handles[res.stream].closedBy = "model") =>
              (res'.used /\ handles'[res'.stream].closedBy = "model")]_vars

\* A block that opened the source on entry has been left by an exception: the
\* stream is closed.
C12_Witness ==
    /\ resOut = Outcome("exit", "error")
    /\ ~inBlock
    /\ res.used
    /\ Len(handles) = 1
    /\ handles[1].closedBy = "model"

\* The files no scanner returned a result for on the direct attempt, that look
\* like archives (by content or by extension) and do not open as one.
UnclaimedBadArchives ==
    { e.src : e \in { r \in Events("return") :
                        /\ r.out = "False"
                        /\ IsFile(r.src)
                        /\ IsZipfile(r.src) \/ Suffix(Last(r.src)) \in supported_zip_extensions
                        /\ Node(r.src).zip = "bad" } }

\* C13: a file no scanner returned a result for, that looks like an archive by
\* its content or its extension and does not open as one, is recorded in
\* _skipped exactly once, and the failed open adds no error.
C13_BadArchiveSkippedOnce ==
    /\ [](Returned =>
            \A src \in UnclaimedBadArchives :
                /\ Count(src, _skipped) = 1
                /\ src \notin Scanned
                /\ \A i \in DOMAIN _errors : _errors[i].ref # src
                /\ StartPath(_input_path) = src => _errors = _init_errors)
    /\ [][(Running("zip") /\ Node(Top.src).kind = "file" /\ Node(Top.src).zip = "bad") =>
              /\ _skipped' = Append(_skipped, Top.src)
              /\ _errors' = _errors]_vars

\* scan('/r/c.bin') has returned: the file starts with the archive signature,
\* has no archive extension, and does not open as an archive.
C13_Witness ==
    /\ Returned
    /\ _input_path = Abs(<<"r", "c.bin">>)
    /\ UnclaimedBadArchives = { <<"r", "c.bin">> }
    /\ _skipped = << <<"r", "c.bin">> >>
    /\ Len(_scanners_to_run) = 3

\* The paths of a report: its skipped and scanned files and the sources of its
\* issues and errors.
ReportPaths ==
    SeqToSet(report.skipped_files) \cup SeqToSet(report.scanned_files)
    \cup { report.issues[i].source : i \in DOMAIN report.issues }
    \cup { report.errors[i].source :
             i \in { j \in DOMAIN report.errors : report.errors[j].has_source } }

\* C14: every path of a report is relative to the report root (the parent
\* directory of an input that is a file, the resolved input otherwise): the
\* root followed by the path names the file that was recorded, and the path
\* has no parent-directory segment.
C14_ReportPathsUnderRoot ==
    Returned =>
        /\ report.absolute_path = ReportRoot(_input_path)
        /\ \A p \in ReportPaths : ".." \notin SeqToSet(p)

\* C15: is_compatible(path) is true exactly when the suffix of the path is an
\* archive extension or one of the supported extensions of an enabled scanner.
C15_CompatibleIffEnabledScanner ==
    probe.kind = "probe" =>
        (probe.result <=>
            \/ Suffix(Last(probe.path.segs)) \in supported_zip_extensions
            \/ \E i \in DOMAIN settings :
                  /\ settings[i].enabled
                  /\ Suffix(Last(probe.path.segs)) \in settings[i].supported_extensions)

\* scan() was called on an existing plain file (no directory, nothing that
\* looks like an archive), every loaded scanner returned None for it, and the
\* call is over.
PlainFileUnclaimed ==
    /\ callNo > 0
    /\ pc \in {"done", "raised"}
    /\ IsFile(StartPath(_input_path))
    /\ ~IsZipfile(StartPath(_input_path))
    /\ Suffix(Last(StartPath(_input_path))) \notin supported_zip_extensions
    /\ \A e \in Events("offer") : e.out = "null"

\* C16: scan() of an existing plain file that no scanner returns a result for
\* returns a report whose skipped files are that file alone, with no scanned
\* file, no issue, and no error of the scan.
C16_UnclaimedFileReport ==
    PlainFileUnclaimed =>
        /\ Returned
        /\ Len(report.skipped_files) = 1
        /\ Resolve(report.absolute_path \o report.skipped_files[1]) = Resolve(StartPath(_input_path))
        /\ report.scanned_files = <<>>
        /\ report.total_issues = 0
        /\ Len(report.errors) = Len(_init_errors)

\* The enabled scanners of the settings whose class can be resolved, in the
\* order of the settings.
IsLoadable(s) == s.enabled /\ s.mode # "unresolvable"
EnabledInOrder == [i \in DOMAIN SelectSeq(settings, IsLoadable) |-> SelectSeq(settings, IsLoadable)[i].id]
\* The place of the offer calls[j] among the offers of its dispatch.
TrialNo(j) ==
    j - CHOOSE i \in 0..(j - 1) :
            /\ i = 0 \/ calls[i].ev # "offer"
            /\ \A k \in (i + 1)..(j - 1) : calls[k].ev = "offer"

\* C17: no call of scan() or is_compatible() changes the loaded scanners,
\* their order, the initialization errors or the settings; the scanners are
\* offered a target in the order the settings list the enabled scanners.
C17_RegistryReadOnly ==
    /\ [][UNCHANGED <<settings, _scanners_to_run, _init_errors>>]_vars
    /\ [](/\ _scanners_to_run = EnabledInOrder
          /\ \A j \in DOMAIN calls :
                calls[j].ev = "offer" => calls[j].scanner = EnabledInOrder[TrialNo(j)])

\* After two scan() calls and an is_compatible() call on an engine with two
\* loaded scanners and one that could not be loaded: the second scan() has
\* returned and both scanners were offered its target.
C17_Witness ==
    /\ callNo = 2
    /\ Returned
    /\ probe.kind = "probe"
    /\ Len(_scanners_to_run) = 2
    /\ Len(_init_errors) = 1
    /\ Cardinality(Events("offer")) >= 2

\* The places in calls of the events ev.
Places(ev) == { j \in DOMAIN calls : calls[j].ev = ev }
\* No two events ev of this scan() are about the same source.
OncePerSource(ev) ==
    \A j \in Places(ev), k \in Places(ev) : calls[j].src = calls[k].src => j = k

\* C18: a scan() that was called comes to its end (it returns its report, or
\* an exception leaves it); on the way each path and
\* each archive entry is offered to the scanners at most once, each directory
\* is listed and each archive opened at most once, and only files on disk are
\* opened as archives: the entries of an archive are offered, what is inside
\* an entry never is.
C18_ScanTerminates ==
    /\ (pc = "run") ~> (pc \in {"done", "raised"})
    /\ [](/\ OncePerSource("dispatch")
          /\ OncePerSource("dir")
          /\ OncePerSource("zip")
          /\ \A e \in Events("dispatch") : e.src \in Targets(_input_path)
          /\ \A e \in Events("zip") \cup Events("dir") : e.src \in FsTargets(_input_path))

\* scan('.') has returned after walking /r/w: the archive a.zip was opened and
\* its nested archive entry was offered to the scanners, once.
C18_Witness ==
    /\ Returned
    /\ _input_path = Dot
    /\ \E e \in Events("zip") : e.src = <<"r", "w", "a.zip">>
    /\ \E e \in Events("dispatch") : e.src \in EntrySourcesIn(MagicEntries)
    /\ \E e \in Events("dir") : e.src = Cwd

\* The number of scanners that returned a result for the source.
Claims(src) == Cardinality({ j \in Places("offer") : calls[j].src = src /\ calls[j].out = "claim" })

\* C19: the entries of _scanned are the sources of the results the scanners
\* returned, in the order of the calls: a dispatch appends its target's source
\* string once for each scanner that returned a result for it, and nothing
\* when none did.
C19_ScannedEntryPerClaim ==
    /\ _scanned = [i \in DOMAIN ClaimedOf(calls) |-> ClaimedOf(calls)[i].src]
    /\ \A e \in Events("dispatch") : Count(e.src, _scanned) = Claims(e.src)

\* The dispatch of an archive entry has returned: two scanners returned a
\* result for it and it is in _scanned twice; the entry before it, that no
\* scanner returned a result for, is not in _scanned.
C19_Witness ==
    /\ \E e \in Events("return") :
          /\ e.src \in EntrySourcesIn({ <<"n.zip">> })
          /\ Claims(e.src) = 2
          /\ Count(e.src, _scanned) = 2
    /\ \E e \in Events("return") :
          /\ e.src \in EntrySourcesIn({ <<"sub", "e.pkl">> })
          /\ e.out = "False"
          /\ Count(e.src, _scanned) = 0
    /\ Len(_scanned) = 2

\* C20: once a Model has a stream (passed to it, or opened by open()), no call
\* of open(), close() or get_stream(), nor entering or leaving a with block,
\* detaches or replaces the stream or changes _source_file_used; open() after
\* close() returns without opening the source again, and the closed stream
\* stays the Model's stream.
C20_StreamStaysAttached ==
    [][/\ res.stream # 0 => res' = res
       /\ (resOut'.op \in {"open", "enter"} /\ res.stream # 0
              /\ handles[res.stream].closedBy = "model") =>
              /\ resOut'.result = "already"
              /\ handles' = handles
              /\ handles'[res'.stream].closedBy = "model"]_vars

\* open() has returned on a Model that had opened its source and closed it:
\* the one stream there is is the closed one.
C20_Witness ==
    /\ resOut = Outcome("open", "already")
    /\ res.used
    /\ res.stream = 1
    /\ Len(handles) = 1
    /\ handles[1].closedBy = "model"

====
